---- MODULE Spec2Model ----
(***************************************************************************)
(* Model of the ingestion service of financial-data-analysis               *)
(* (src/ingestor.py): fetch_data, process_data, save_to_datalake and the   *)
(* scheduler loop of main, together with the partitioned store the writer  *)
(* produces on disk.                                                       *)
(*                                                                         *)
(* Timestamps are minutes since 1970-01-01 00:00 in the feed's timezone;   *)
(* prices are integers (hundredths).  A DataFrame is a record of its index *)
(* name, its index, its columns and its cells.  The store is the set of    *)
(* directories and files under BASE_PATH.                                  *)
(***************************************************************************)
EXTENDS Integers, Sequences, FiniteSets, TLC

\* --------------------------------------------------------------- bounds
\* Largest number of rows (observation instants) of one snapshot.
MaxRows == 2

\* --------------------------------------------------------- configuration
\* The first two symbols of the configured universe.
ASSETS == <<"HGLG11.SA", "KNRI11.SA">>
INTERVAL_SECONDS == 120
BACKOFF_SECONDS == 60
BASE_PATH == "datalake"

NaN == 0
\* Present prices, in hundredths.
Prices == {1050}

MinutesPerDay == 24 * 60
At(day, hh, mm) == day * MinutesPerDay + hh * 60 + mm
\* 19753 = 2024-01-31, 19754 = 2024-02-01 (days since 1970-01-01).
Instants == {At(19753, 9, 30), At(19753, 9, 31), At(19754, 9, 30)}
\* Wall-clock readings (seconds since midnight) datetime.now() may return.
Clock == {9 * 3600 + 30 * 60, 9 * 3600 + 30 * 60 + 59}

\* ------------------------------------------------------ sequence helpers
Range(s) == {s[i] : i \in DOMAIN s}

Min(S) == CHOOSE x \in S : \A y \in S : x <= y

RECURSIVE SortedSeq(_)
SortedSeq(S) == IF S = {} THEN <<>>
                ELSE LET m == Min(S) IN <<m>> \o SortedSeq(S \ {m})

RECURSIVE Flatten(_)
Flatten(ss) == IF ss = <<>> THEN <<>> ELSE Head(ss) \o Flatten(Tail(ss))

\* Subsequences of s that keep its order and are not empty.
SubSeqsOf(s) ==
  { SelectSeq(s, LAMBDA x : x \in K) : K \in (SUBSET Range(s)) \ {{}} }

\* ----------------------------------------------------- calendar (.dt.*)
\* Civil date of a day number (days since 1970-01-01), proleptic Gregorian.
CivilFromDays(days) ==
  LET z   == days + 719468
      era == z \div 146097
      doe == z - era * 146097
      yoe == (doe - (doe \div 1460) + (doe \div 36524) - (doe \div 146096)) \div 365
      doy == doe - (365 * yoe + (yoe \div 4) - (yoe \div 100))
      mp  == (5 * doy + 2) \div 153
      d   == doy - ((153 * mp + 2) \div 5) + 1
      m   == IF mp < 10 THEN mp + 3 ELSE mp - 9
      y   == yoe + era * 400 + (IF m <= 2 THEN 1 ELSE 0)
  IN  [year |-> y, month |-> m, day |-> d]

\* The civil dates of the days the model's instants fall on, computed once.
CivilDate ==
  [d \in {ts \div MinutesPerDay : ts \in Instants} |-> CivilFromDays(d)]

\* Series.dt.year, .dt.month, .dt.day of a timestamp.
dt_year(ts)  == CivilDate[ts \div MinutesPerDay].year
dt_month(ts) == CivilDate[ts \div MinutesPerDay].month
dt_day(ts)   == CivilDate[ts \div MinutesPerDay].day

\* strftime('%H%M%S') of a wall-clock reading, as the number HHMMSS.
strftime_HMS(secs) ==
  (secs \div 3600) * 10000 + ((secs % 3600) \div 60) * 100 + (secs % 60)

\* ------------------------------------------------------------ DataFrames
\* pd.DataFrame(): no rows, no columns.
EmptyFrame == [index_name |-> "None", index |-> <<>>, columns |-> <<>>,
               cell |-> <<>>]

\* DataFrame.empty: some axis has length 0.
IsEmpty(df) == Len(df.index) = 0 \/ Len(df.columns) = 0

\* The wide snapshots the upstream feed may return as data['Close']: at
\* least one row and one column, any pattern of NaN cells.
Snapshots ==
  UNION { UNION { { [index_name |-> n, index |-> SortedSeq(I), columns |-> c,
                     cell |-> f] :
                    f \in [I \X Range(c) -> Prices \cup {NaN}],
                    n \in {"Datetime", "Date"} } :
                  c \in SubSeqsOf(ASSETS) } :
          I \in {J \in SUBSET Instants : J # {} /\ Cardinality(J) <= MaxRows} }

\* The long frame is a sequence of rows; pd.DataFrame() has none.
EmptyTidy == <<>>

\* ------------------------------------------------------------ fetch_data
\* What yf.download does on one call: it raises, returns an empty frame,
\* returns a frame without a 'Close' column, or returns one whose 'Close'
\* part is a snapshot.
Responses ==
  {[kind |-> k, close |-> EmptyFrame] : k \in {"raise", "empty", "no_close"}}
  \cup {[kind |-> "ok", close |-> s] : s \in Snapshots}

\* fetch_data, had its handler logged the error and returned a frame of
\* one row instead of an empty one.
fetch_data_frame_on_error(resp) ==
  CASE resp.kind = "raise"    ->
         [df |-> CHOOSE sn \in Snapshots :
                   /\ Len(sn.index) = 1
                   /\ \A c \in DOMAIN sn.cell : sn.cell[c] # NaN,
          log |-> {"ERROR fetch"}]
    [] resp.kind = "empty"    -> [df |-> EmptyFrame, log |-> {"WARNING no data"}]
    [] resp.kind = "no_close" -> [df |-> EmptyFrame, log |-> {"ERROR no Close"}]
    [] OTHER                  -> [df |-> resp.close, log |-> {}]

fetch_data(resp) ==
  CASE resp.kind = "raise"    -> [df |-> EmptyFrame, log |-> {"ERROR fetch"}]
    [] resp.kind = "empty"    -> [df |-> EmptyFrame, log |-> {"WARNING no data"}]
    [] resp.kind = "no_close" -> [df |-> EmptyFrame, log |-> {"ERROR no Close"}]
    [] OTHER                  -> [df |-> resp.close, log |-> {}]

\* ---------------------------------------------------------- process_data
\* reset_index + melt: one row per column and index entry, column-major.
melt(df) ==
  Flatten([j \in 1..Len(df.columns) |->
             [i \in 1..Len(df.index) |->
                [Datetime |-> df.index[i], Ticker |-> df.columns[j],
                 Close |-> df.cell[<<df.index[i], df.columns[j]>>]]]])

\* dropna, had it kept every row.
dropna_keeps_all(rows) == rows

\* dropna(subset=['Close']).
dropna(rows) == SelectSeq(rows, LAMBDA r : r.Close # NaN)

\* The partition columns, had they been taken from the first row's
\* timestamp for every row.
add_partition_cols_of_first(rows) ==
  [k \in 1..Len(rows) |->
     [Datetime |-> rows[k].Datetime, Ticker |-> rows[k].Ticker,
      Close |-> rows[k].Close,
      ano |-> dt_year(rows[1].Datetime),
      mes |-> dt_month(rows[1].Datetime),
      dia |-> dt_day(rows[1].Datetime)]]

\* Lines 85-87: ano, mes, dia from each row's own Datetime.
add_partition_cols(rows) ==
  [k \in 1..Len(rows) |->
     [Datetime |-> rows[k].Datetime, Ticker |-> rows[k].Ticker,
      Close |-> rows[k].Close,
      ano |-> dt_year(rows[k].Datetime),
      mes |-> dt_month(rows[k].Datetime),
      dia |-> dt_day(rows[k].Datetime)]]

\* process_data, had its handler returned the rows melted so far.
process_data_partial_on_error(df, fault) ==
  IF IsEmpty(df)
  THEN [out |-> EmptyTidy, log |-> {}, arg |-> df]
  ELSE LET renamed == [df EXCEPT !.index_name = "Datetime"] IN
       IF fault
       THEN [out |-> add_partition_cols(melt(renamed)),
             log |-> {"ERROR process"}, arg |-> renamed]
       ELSE [out |-> add_partition_cols(dropna(melt(renamed))), log |-> {},
             arg |-> renamed]

\* process_data(df); `fault` is an exception raised inside its try block.
\* `arg` is the caller's frame after the call (line 67 renames its index).
process_data(df, fault) ==
  IF IsEmpty(df)
  THEN [out |-> EmptyTidy, log |-> {}, arg |-> df]
  ELSE LET renamed == [df EXCEPT !.index_name = "Datetime"] IN
       IF fault
       THEN [out |-> EmptyTidy, log |-> {"ERROR process"}, arg |-> renamed]
       ELSE [out |-> add_partition_cols(dropna(melt(renamed))), log |-> {},
             arg |-> renamed]

\* ------------------------------------------------------------ the store
\* A directory is the tuple of partition values on its path under
\* BASE_PATH (<<>> is BASE_PATH itself, <<2024, 1, 31>> is
\* ano=2024/mes=1/dia=31); a file is named by its directory and its name.
\* `meta` is the content of BASE_PATH/_metadata: the files it lists.
EmptyStore == [dirs |-> {}, files |-> <<>>, meta |-> {}]

partition_key(r) == <<r.ano, r.mes, r.dia>>

KeyOrder(k) == k[1] * 10000 + k[2] * 100 + k[3]

\* The groups, had only the first row's key been taken.
group_keys_of_first(rows) ==
  IF rows = <<>> THEN <<>> ELSE <<partition_key(rows[1])>>

\* groupby(['ano','mes','dia']): the distinct keys, sorted.
group_keys(rows) ==
  LET keys == {partition_key(rows[i]) : i \in DOMAIN rows}
      ord  == SortedSeq({KeyOrder(k) : k \in keys})
  IN  [i \in 1..Len(ord) |-> CHOOSE k \in keys : KeyOrder(k) = ord[i]]

\* The rows of a group, had every row been put in every group.
group_rows_unfiltered(rows, key) ==
  [i \in 1..Len(rows) |->
     [Datetime |-> rows[i].Datetime, Ticker |-> rows[i].Ticker,
      Close |-> rows[i].Close]]

\* The rows of one group, without the partition columns.
group_rows(rows, key) ==
  LET g == SelectSeq(rows, LAMBDA r : partition_key(r) = key)
  IN  [i \in 1..Len(g) |->
         [Datetime |-> g[i].Datetime, Ticker |-> g[i].Ticker,
          Close |-> g[i].Close]]

\* The name of the file to_parquet writes in each partition directory: the
\* first (and only) row group of a fresh, non-appending write.
part_name(fname) == "part.0.parquet"

mkdirs(dirs, key) ==
  dirs \cup {SubSeq(key, 1, n) : n \in 0..Len(key)}

\* open(path, 'wb') and write: creates the file or replaces its content.
write_file(files, path, rows) ==
  [p \in DOMAIN files \cup {path} |-> IF p = path THEN rows ELSE files[p]]

\* The rows held by the files of a store.
RecordsOf(files) ==
  UNION {{files[p][i] : i \in DOMAIN files[p]} : p \in DOMAIN files}

\* What main can tell of a frame a stage returned: line 131 and line 134
\* test .empty and nothing else.
Returned(isEmpty) == IF isEmpty THEN "empty DataFrame" ELSE "DataFrame"

\* save_to_datalake's return value: None on every path (lines 100, 118,
\* 121), whether the write completed (`ok`) or raised.
save_return(ok) == "None"

\* st.cache_data(ttl=60): the seconds a memoised result of load_data
\* stays valid.
CACHE_TTL == 60

\* st.cache_data before load_data's first call, or after its entry expired.
\* `aged` tells that a sleep of main began after the entry was made.
NoCache == [valid |-> FALSE, df |-> <<>>, aged |-> FALSE]

\* The cache when a sleep of `seconds` begins, and when it ends: an entry
\* made before a sleep at least as long as its time to live is older than
\* that at the end of the sleep, and has expired.
cache_at_sleep(c, seconds) ==
  IF c.valid /\ seconds >= CACHE_TTL THEN [c EXCEPT !.aged = TRUE] ELSE c

cache_at_wake(c) == IF c.aged THEN NoCache ELSE c

\* ---------------------------------------------------------------- state
VARIABLES
  pc,            \* position of main: fetch, process, save, writing, sleep,
                 \* backoff, stopped (left the loop), crashed (exception
                 \* escaped main)
  df_raw,        \* main's df_raw
  df_processed,  \* main's df_processed
  datalake,      \* the store under BASE_PATH
  filename,      \* save_to_datalake's local `filename` (0 outside a write)
  pending,       \* partition groups the write in flight has yet to write
  written,       \* files the write in flight has written so far
  delay,         \* argument of the time.sleep in progress (0 if none)
  log,           \* messages logged since the current cycle began
  ret,           \* what the last stage call of the cycle handed to main
  before,        \* the rows the store held when the current cycle began
  cache          \* the dashboard's memoised result of load_data

vars == <<pc, df_raw, df_processed, datalake, filename, pending, written,
          delay, log, ret, before, cache>>

Init ==
  /\ pc = "fetch"
  /\ df_raw = EmptyFrame
  /\ df_processed = EmptyTidy
  /\ datalake = EmptyStore
  /\ filename = 0
  /\ pending = <<>>
  /\ written = {}
  /\ delay = 0
  /\ log = {}
  /\ ret = "unset"
  /\ before = {}
  /\ cache = NoCache

\* A local of main or of save_to_datalake is carried while the code can
\* still read it and is reset to its initial value where it no longer can
\* (the cycle is over, or the function has returned).
ForgetSave == filename' = 0 /\ pending' = <<>> /\ written' = {}

ForgetLocals == df_raw' = EmptyFrame /\ df_processed' = EmptyTidy /\ ForgetSave

\* Lines 139-140: log and start the normal sleep.
EnterSleep(msgs) ==
  /\ pc' = "sleep"
  /\ delay' = INTERVAL_SECONDS
  /\ log' = msgs \cup {"INFO sleeping"}
  /\ cache' = cache_at_sleep(cache, INTERVAL_SECONDS)
  /\ ForgetLocals

\* Line 131: the branch main takes on the fetched frame.
AfterFetch(df) == IF ~IsEmpty(df) THEN "process" ELSE "sleep"

\* Line 134: the branch main takes on the processed frame.
AfterProcess(rows) == IF rows # EmptyTidy THEN "save" ELSE "sleep"

\* Lines 128-131: one call of fetch_data and the test of its result.
Fetch ==
  /\ pc = "fetch"
  /\ \E resp \in Responses :
       LET r == fetch_data(resp) IN
       /\ ret' = Returned(IsEmpty(r.df))
       /\ IF AfterFetch(r.df) = "process"
          THEN /\ pc' = "process"
               /\ df_raw' = r.df
               /\ log' = {"INFO fetching"} \cup r.log
               /\ UNCHANGED <<df_processed, filename, pending, written, delay,
                              cache>>
          ELSE EnterSleep({"INFO fetching"} \cup r.log)
  /\ before' = RecordsOf(datalake.files)
  /\ UNCHANGED datalake

\* Lines 132-137: one call of process_data and the test of its result.
Process ==
  /\ pc = "process"
  /\ \E fault \in BOOLEAN :
       LET r == process_data(df_raw, fault) IN
       /\ ret' = Returned(r.out = EmptyTidy)
       /\ IF AfterProcess(r.out) = "save"
          THEN /\ pc' = "save"
               /\ df_raw' = r.arg
               /\ df_processed' = r.out
               /\ log' = log \cup r.log
               /\ UNCHANGED <<filename, pending, written, delay, cache>>
          ELSE EnterSleep(log \cup r.log \cup {"WARNING processed empty"})
  /\ UNCHANGED <<datalake, before>>

\* The test of lines 99-100, had it been left out.
save_never_returns_early(rows) == FALSE

\* Lines 99-100: save_to_datalake returns at once on an empty frame.
save_returns_early(rows) == rows = EmptyTidy

\* Lines 99-110: save_to_datalake up to the start of to_parquet's writing;
\* `now` is the reading of datetime.now().
SaveBegin ==
  /\ pc = "save"
  /\ IF save_returns_early(df_processed)
     THEN EnterSleep(log) /\ ret' = save_return(TRUE) /\ UNCHANGED datalake
     ELSE \E now \in Clock :
            /\ filename' = strftime_HMS(now)
            /\ pending' = group_keys(df_processed)
            /\ written' = {}
            /\ datalake' = [datalake EXCEPT !.dirs = mkdirs(@, <<>>)]
            /\ pc' = "writing"
            /\ UNCHANGED <<df_raw, df_processed, delay, log, ret, cache>>
  /\ UNCHANGED before

\* Lines 110-116: to_parquet writes the file of the next partition group.
WriteGroup ==
  /\ pc = "writing"
  /\ pending # <<>>
  /\ LET key  == Head(pending)
         path == [dir |-> key, name |-> part_name(filename)]
     IN  /\ datalake' = [datalake EXCEPT
                           !.dirs = mkdirs(@, key),
                           !.files = write_file(@, path,
                                                group_rows(df_processed, key))]
         /\ written' = written \cup {path}
  /\ pending' = Tail(pending)
  /\ UNCHANGED <<pc, df_raw, df_processed, filename, delay, log, ret, before,
                 cache>>

\* Lines 110-118: to_parquet writes _metadata last and returns; the call is
\* logged as saved and main goes to sleep.
WriteMetadata ==
  /\ pc = "writing"
  /\ pending = <<>>
  /\ datalake' = [datalake EXCEPT !.meta = written]
  /\ EnterSleep(log \cup {"INFO saved"})
  /\ ret' = save_return(TRUE)
  /\ UNCHANGED before

\* Lines 120-121: to_parquet raises; the error is logged, the call returns
\* and main goes to sleep.
WriteError ==
  /\ pc = "writing"
  /\ EnterSleep(log \cup {"ERROR save"})
  /\ ret' = save_return(FALSE)
  /\ UNCHANGED <<datalake, before>>

\* Line 140 returns: the next cycle begins.
Sleep ==
  /\ pc = "sleep"
  /\ pc' = "fetch"
  /\ delay' = 0
  /\ log' = {}
  /\ ret' = "unset"
  /\ before' = {}
  /\ cache' = cache_at_wake(cache)
  /\ UNCHANGED <<df_raw, df_processed, datalake, filename, pending, written>>

\* Lines 145-147: an exception reaches the loop's handler.
InTry == {"fetch", "process", "save", "writing", "sleep"}

\* The loop's handler, had it left the loop.
AfterCritical_leaves == "stopped"

\* The loop's handler, had it gone on to the next fetch without sleeping.
AfterCritical_retries == "fetch"

\* Line 147: the handler sleeps and the loop goes on.
AfterCritical == "backoff"

CriticalError ==
  /\ pc \in InTry \ {"writing"}
  /\ pc' = AfterCritical
  /\ delay' = BACKOFF_SECONDS
  /\ log' = log \cup {"CRITICAL main loop"}
  /\ ForgetLocals
  /\ ret' = "unset"
  /\ before' = {}
  /\ cache' = cache_at_sleep(cache, BACKOFF_SECONDS)
  /\ UNCHANGED datalake

\* Line 147 returns: the loop goes round again.
Backoff ==
  /\ pc = "backoff"
  /\ pc' = "fetch"
  /\ delay' = 0
  /\ log' = {}
  /\ ret' = "unset"
  /\ before' = {}
  /\ cache' = cache_at_wake(cache)
  /\ UNCHANGED <<df_raw, df_processed, datalake, filename, pending, written>>

\* KeyboardInterrupt.  Inside the try block (lines 128-140, the stages
\* included: their handlers catch Exception only) it reaches line 142 and
\* the loop ends; during the sleep of line 147 nothing catches it and the
\* interpreter prints its traceback.
AfterInterrupt(at) == IF at \in InTry THEN "stopped" ELSE "crashed"

Interrupt ==
  /\ pc \in InTry \cup {"backoff"}
  /\ pc' = AfterInterrupt(pc)
  /\ log' = log \cup {IF pc \in InTry THEN "INFO stopped by user"
                                      ELSE "TRACEBACK KeyboardInterrupt"}
  /\ ForgetLocals
  /\ ret' = "unset"
  /\ before' = {}
  /\ UNCHANGED <<datalake, delay, cache>>

Next ==
  \/ Fetch
  \/ Process
  \/ SaveBegin
  \/ WriteGroup
  \/ WriteMetadata
  \/ WriteError
  \/ Sleep
  \/ CriticalError
  \/ Backoff
  \/ Interrupt

Spec == Init /\ [][Next]_vars

\* save_to_datalake called by a caller other than main's cycle, with any
\* long frame process_data can produce or an empty one, between two cycles.
TidyInputs == {process_data(sn, FALSE).out : sn \in Snapshots} \cup {EmptyTidy}

CallSave ==
  /\ pc = "sleep"
  /\ pc' = "save"
  /\ df_processed' \in TidyInputs
  /\ ret' = "unset"
  /\ before' = {}
  /\ UNCHANGED <<df_raw, datalake, filename, pending, written, delay, log,
                 cache>>

NextCalls ==
  \/ Next
  \/ CallSave

SpecCalls == Init /\ [][NextCalls]_vars

\* ------------------------------------------------------------- dashboard
\* .dt.date of a timestamp, as a day number.
dt_date(ts) == ts \div MinutesPerDay

\* DataFrame.sort_values('Datetime'): rows by timestamp, rows of equal
\* timestamp in their order of arrival.
sort_values(rows) ==
  LET times == SortedSeq({rows[i].Datetime : i \in DOMAIN rows})
  IN  Flatten([k \in 1..Len(times) |->
                 SelectSeq(rows, LAMBDA r : r.Datetime = times[k])])

\* pd.read_parquet(path, engine='fastparquet') on a directory that holds
\* data files: the row groups listed in _metadata if that file is there,
\* else those of every data file found, in the order of their paths.
read_parquet(store) ==
  LET listed  == IF store.meta # {} THEN store.meta ELSE DOMAIN store.files
      keys    == SortedSeq({KeyOrder(p.dir) : p \in listed})
      file(k) == CHOOSE p \in listed : KeyOrder(p.dir) = keys[k]
  IN  Flatten([k \in 1..Len(keys) |-> store.files[file(k)]])

\* load_data's body: an empty frame if the directory is missing, an empty
\* frame and an error message if read_parquet raises (a directory without
\* data files), else the frame read.
load_data(store) ==
  IF <<>> \notin store.dirs
  THEN [df |-> <<>>, error |-> FALSE]
  ELSE IF DOMAIN store.files = {}
       THEN [df |-> <<>>, error |-> TRUE]
       ELSE [df |-> read_parquet(store), error |-> FALSE]

\* load_data under st.cache_data(ttl=60): the memoised result while its
\* entry is valid, else the result of a call, which is memoised.
cached_load(store, c) ==
  IF c.valid THEN c
  ELSE [valid |-> TRUE, df |-> load_data(store).df, aged |-> FALSE]

\* One run of the dashboard's main with `asset` and `day` as the choices in
\* the two sidebar widgets: what it ends with, the rows it shows, and the
\* cache it leaves. A choice the widgets do not offer shows nothing.
dash_main(store, c, asset, day) ==
  IF <<>> \notin store.dirs
  THEN [out |-> "WARNING no directory", rows |-> <<>>, cache |-> c]
  ELSE
    LET c2 == cached_load(store, c)
        df == c2.df
        available_assets == {df[i].Ticker : i \in DOMAIN df}
        dates    == {dt_date(df[i].Datetime) : i \in DOMAIN df}
        min_date == Min(dates)
        max_date == CHOOSE d \in dates : \A e \in dates : e <= d
        filtered_df ==
          sort_values(SelectSeq(df, LAMBDA r :
                        r.Ticker = asset /\ dt_date(r.Datetime) = day))
    IN  IF df = <<>>
        THEN [out |-> "INFO no data", rows |-> <<>>, cache |-> c2]
        ELSE IF asset \notin available_assets \/ day \notin min_date..max_date
        THEN [out |-> "not offered", rows |-> <<>>, cache |-> c2]
        ELSE IF filtered_df = <<>>
        THEN [out |-> "WARNING no rows", rows |-> <<>>, cache |-> c2]
        ELSE [out |-> "shown", rows |-> filtered_df, cache |-> c2]

\* The calendar days of the model's instants.
Days == {dt_date(t) : t \in Instants}

\* The dashboard, a process of its own, runs main once.
Render ==
  /\ \E asset \in Range(ASSETS), day \in Days :
       cache' = dash_main(datalake, cache, asset, day).cache
  /\ UNCHANGED <<pc, df_raw, df_processed, datalake, filename, pending,
                 written, delay, log, ret, before>>

\* The entry's time to live has passed.
Expire ==
  /\ cache.valid
  /\ cache' = NoCache
  /\ UNCHANGED <<pc, df_raw, df_processed, datalake, filename, pending,
                 written, delay, log, ret, before>>

NextDash ==
  \/ Next
  \/ Render
  \/ Expire

SpecDash == Init /\ [][NextDash]_vars

\* ------------------------------------------------------------ properties
Terminal == {"stopped", "crashed"}

Rows(f) == {f[i] : i \in DOMAIN f}

\* A calendar computed by walking the years and months from 1970-01-01.
IsLeap(y) == (y % 4 = 0 /\ y % 100 # 0) \/ y % 400 = 0

DaysInYear(y) == IF IsLeap(y) THEN 366 ELSE 365

DaysInMonth(y, m) ==
  CASE m = 2 -> IF IsLeap(y) THEN 29 ELSE 28
    [] m \in {4, 6, 9, 11} -> 30
    [] OTHER -> 31

RECURSIVE WalkMonths(_, _, _)
WalkMonths(y, m, d) ==
  IF d >= DaysInMonth(y, m) THEN WalkMonths(y, m + 1, d - DaysInMonth(y, m))
  ELSE <<y, m, d + 1>>

RECURSIVE WalkYears(_, _)
WalkYears(y, d) ==
  IF d >= DaysInYear(y) THEN WalkYears(y + 1, d - DaysInYear(y))
  ELSE WalkMonths(y, 1, d)

CalendarTable ==
  [d \in {ts \div MinutesPerDay : ts \in Instants} |-> WalkYears(1970, d)]

CalendarDate(ts) == CalendarTable[ts \div MinutesPerDay]

\* C1: every file of the store keeps its place and its content across every
\* step; the writer only adds files.
C1_AppendOnly ==
  [][\A p \in DOMAIN datalake.files :
        /\ p \in DOMAIN datalake'.files
        /\ datalake'.files[p] = datalake.files[p]]_vars

\* C2: a file a write creates has a name no file of its partition had
\* before the write.
C2_UniqueFileNames ==
  [][\A p \in written' \ written : p \notin DOMAIN datalake.files]_vars

\* C3: a fetch that fails with a transport error is logged, leaves the
\* store as it was and puts the loop into the normal sleep of
\* INTERVAL_SECONDS, not the backoff; the sleep over, the next cycle begins.
C3_FetchFailureIsolated ==
  [][/\ (pc = "fetch" /\ "ERROR fetch" \in log')
          => /\ datalake' = datalake
             /\ pc' = "sleep"
             /\ delay' = INTERVAL_SECONDS
             /\ "CRITICAL main loop" \notin log'
     /\ (pc = "sleep" /\ "ERROR fetch" \in log /\ pc' \notin Terminal \cup {"backoff"})
          => pc' = "fetch"]_vars

C3_Witness ==
  /\ pc = "sleep"
  /\ "ERROR fetch" \in log
  /\ delay = INTERVAL_SECONDS
  /\ datalake.files # <<>>

\* C4: an exception inside process_data or save_to_datalake is logged and
\* the loop goes to the normal sleep of INTERVAL_SECONDS, never to the
\* loop's handler nor out of the loop; the sleep over, a new cycle begins.
StageErrors == {"ERROR process", "ERROR save"}

C4_StageIsolation ==
  [][/\ (StageErrors \cap (log' \ log) # {})
          => /\ pc' = "sleep"
             /\ delay' = INTERVAL_SECONDS
     /\ (pc = "sleep" /\ StageErrors \cap log # {}
           /\ pc' \notin Terminal \cup {"backoff"})
          => pc' = "fetch"]_vars

C4_Witness ==
  /\ pc = "sleep"
  /\ "ERROR save" \in log
  /\ delay = INTERVAL_SECONDS
  /\ datalake.files # <<>>

\* C5: the loop has ended only where an interrupt ended it; in every
\* other state a step of the loop is possible, and after a critical error
\* the loop is in the backoff sleep, from which the next step is a fetch.
LoopStep ==
  \/ Fetch \/ Process \/ SaveBegin \/ WriteGroup \/ WriteMetadata
  \/ WriteError \/ Sleep \/ Backoff

C5_OnlyInterruptEnds ==
  /\ pc \notin Terminal => ENABLED LoopStep
  /\ pc \in Terminal =>
       {"INFO stopped by user", "TRACEBACK KeyboardInterrupt"} \cap log # {}
  /\ "CRITICAL main loop" \in log =>
       \/ pc = "backoff" /\ delay = BACKOFF_SECONDS /\ ENABLED Backoff
       \/ pc = "crashed"

C5_Witness ==
  /\ pc = "backoff"
  /\ "CRITICAL main loop" \in log
  /\ datalake.files # <<>>

\* C6: the loop is never stopped while a write is in flight.
C6_NoStopMidWrite ==
  [][pc = "writing" => pc' \notin Terminal]_vars

\* C7: process_data returns one row for each cell with a price, with that
\* cell's instant, symbol and price, and no other row; it logs no error.
PresentCells(df) == {c \in DOMAIN df.cell : df.cell[c] # NaN}

IsTidyOf(df, rows) ==
  /\ Len(rows) = Cardinality(PresentCells(df))
  /\ \A c \in PresentCells(df) :
       Cardinality({k \in DOMAIN rows :
                      /\ rows[k].Datetime = c[1]
                      /\ rows[k].Ticker = c[2]
                      /\ rows[k].Close = df.cell[c]}) = 1
  /\ \A k \in DOMAIN rows : rows[k].Close # NaN

C7_TidyTotality ==
  /\ pc = "process" =>
       LET r == process_data(df_raw, FALSE)
       IN  IsTidyOf(df_raw, r.out) /\ r.log = {}
  /\ pc \in {"save", "writing"} => IsTidyOf(df_raw, df_processed)

C7_Witness ==
  /\ pc = "save"
  /\ Len(df_processed) >= 2
  /\ \E c \in DOMAIN df_raw.cell : df_raw.cell[c] = NaN

\* C8: each row's (ano, mes, dia) is the calendar date of its timestamp, so
\* rows of one calendar day have the same keys, in this cycle and in the
\* partitions earlier cycles wrote.
C8_PartitionKeys ==
  \A k \in DOMAIN df_processed :
    LET r == df_processed[k] IN
    /\ partition_key(r) = CalendarDate(r.Datetime)
    /\ \A j \in DOMAIN df_processed :
         (df_processed[j].Datetime \div MinutesPerDay
            = r.Datetime \div MinutesPerDay)
           => partition_key(df_processed[j]) = partition_key(r)
    /\ \A p \in DOMAIN datalake.files : \A old \in Rows(datalake.files[p]) :
         (old.Datetime \div MinutesPerDay = r.Datetime \div MinutesPerDay)
           => p.dir = partition_key(r)

C8_Witness ==
  /\ pc = "save"
  /\ \E j, k \in DOMAIN df_processed :
       /\ df_processed[j].Datetime # df_processed[k].Datetime
       /\ partition_key(df_processed[j]) = partition_key(df_processed[k])
  /\ \E p \in DOMAIN datalake.files : \E old \in Rows(datalake.files[p]) :
       \E k \in DOMAIN df_processed :
         /\ old.Datetime # df_processed[k].Datetime
         /\ p.dir = partition_key(df_processed[k])

\* C9: every row in a file of the store has a price and lies in the
\* partition directory of its timestamp's calendar date.
C9_StoreIntegrity ==
  \A p \in DOMAIN datalake.files : \A r \in Rows(datalake.files[p]) :
    /\ r.Close # NaN
    /\ p.dir = CalendarDate(r.Datetime)

C9_Witness ==
  /\ Cardinality({p.dir : p \in DOMAIN datalake.files}) = 2
  /\ "ERROR save" \in log

\* C10: save_to_datalake on an empty frame changes nothing in the store,
\* directories included, and a cycle that ends after the fetch or after the
\* transform changes nothing either.
C10_EmptyWriteNoOp ==
  [][/\ (pc = "save" /\ df_processed = EmptyTidy) => datalake' = datalake
     /\ (pc \in {"fetch", "process"} /\ pc' = "sleep")
          => datalake' = datalake]_vars

C10_Witness ==
  /\ pc = "save"
  /\ df_processed = EmptyTidy
  /\ datalake = EmptyStore

\* C11: a write that completes has written one file in the partition of
\* each calendar date occurring in its input and in no other partition, the
\* files together hold every input row exactly once, each in the partition
\* of its own date, and while the write runs no file of another partition
\* appears, disappears or changes.
WrittenCells ==
  UNION {{<<p, i>> : i \in DOMAIN datalake'.files[p]} : p \in written}

C11_WriterPartitions ==
  [][/\ (pc = "writing" /\ "INFO saved" \in log') =>
          /\ {p.dir : p \in written}
               = {CalendarDate(df_processed[k].Datetime) :
                    k \in DOMAIN df_processed}
          /\ Cardinality(written)
               = Cardinality({p.dir : p \in written})
          /\ Cardinality(WrittenCells) = Len(df_processed)
          /\ \A k \in DOMAIN df_processed :
               Cardinality({c \in WrittenCells :
                  /\ c[1].dir = CalendarDate(df_processed[k].Datetime)
                  /\ datalake'.files[c[1]][c[2]].Datetime
                       = df_processed[k].Datetime
                  /\ datalake'.files[c[1]][c[2]].Ticker
                       = df_processed[k].Ticker
                  /\ datalake'.files[c[1]][c[2]].Close
                       = df_processed[k].Close}) = 1
          /\ datalake'.files = datalake.files
     /\ pc = "writing" =>
          LET dates == {CalendarDate(df_processed[k].Datetime) :
                          k \in DOMAIN df_processed}
              other(files) == {p \in DOMAIN files : p.dir \notin dates}
          IN  /\ other(datalake'.files) = other(datalake.files)
              /\ \A p \in other(datalake.files) :
                   datalake'.files[p] = datalake.files[p]]_vars

\* A completed write of three rows, two of one date and one of another.
C11_Witness ==
  /\ pc = "sleep"
  /\ "INFO saved" \in log
  /\ Cardinality(datalake.meta) = 2
  /\ \E p \in datalake.meta : Len(datalake.files[p]) = 2
  /\ \E p \in datalake.meta : Len(datalake.files[p]) = 1

\* C12: when a cycle in which the fetch, the transform or the write failed
\* has reached its sleep, the store holds exactly the rows it held when the
\* cycle began.
CycleFailures ==
  {"ERROR fetch", "ERROR no Close", "ERROR process", "ERROR save"}

C12_FailedCycleAddsNothing ==
  (pc = "sleep" /\ CycleFailures \cap log # {})
    => RecordsOf(datalake.files) = before

\* C13: a call of save_to_datalake whose write raised hands its caller an
\* outcome other than the one a completed write hands it, so that main can
\* tell a failed or partial write from a success.
C13_WriteFailureReported ==
  (pc = "sleep" /\ "ERROR save" \in log) => ret # save_return(TRUE)

\* C14: a fetch that failed hands main a value other than the one main
\* receives when the upstream answered with nothing.
C14_FetchErrorDistinct ==
  (pc = "sleep" /\ "ERROR fetch" \in log)
    => ret # Returned(IsEmpty(fetch_data([kind |-> "empty",
                                          close |-> EmptyFrame]).df))

\* C15: after an error caught by the loop's handler main sleeps the backoff
\* delay before the next cycle, and that delay is longer than the delay
\* between two normal cycles.
C15_BackoffLonger ==
  pc = "backoff" => (delay = BACKOFF_SECONDS /\ delay > INTERVAL_SECONDS)

\* C16: main moves fetch -> process -> save -> sleep -> fetch only: the
\* transform starts only from the fetch of the same cycle and on its frame,
\* the write only from the transform of the same cycle and on its rows, a
\* write in progress only goes forward through its groups, the sleep is
\* entered only from a stage, and a fetch starts only when a sleep (normal
\* or backoff) has ended, so that no stage runs twice in a cycle and no
\* cycle starts before the previous one is over.
C16_StageOrder ==
  [][/\ pc' = "process" =>
          /\ pc = "fetch"
          /\ \E resp \in Responses : df_raw' = fetch_data(resp).df
          /\ ~IsEmpty(df_raw')
     /\ pc' = "save" =>
          /\ pc = "process"
          /\ df_processed' = process_data(df_raw, FALSE).out
          /\ df_processed' # EmptyTidy
     /\ pc' = "writing" =>
          \/ pc = "save" /\ df_processed' = df_processed
          \/ /\ pc = "writing"
             /\ Len(pending') < Len(pending)
             /\ df_processed' = df_processed
     /\ pc' = "sleep" => pc \in {"fetch", "process", "save", "writing"}
     /\ pc' = "fetch" => pc \in {"sleep", "backoff"}
     /\ pc' = "backoff" => pc \in InTry]_vars

\* A second cycle begins after a cycle that ran all its stages.
C16_Witness ==
  /\ pc = "process"
  /\ datalake.meta # {}
  /\ log = {"INFO fetching"}

\* C17: a call of process_data that returns rows leaves the frame it was
\* given as it was, index and index name included, and its rows are those
\* any call on an equal frame returns.
C17_ProcessPure ==
  [][(pc = "process" /\ pc' = "save") =>
        /\ df_raw' = df_raw
        /\ df_processed' = process_data(df_raw, FALSE).out]_vars

\* C19: the dashboard tolerates a store that is missing or holds no rows
\* (load_data returns an empty frame and main ends with a message), and
\* when the store holds rows, a run of main that reads the store (no
\* memoised result of load_data is valid) shows, for every symbol and
\* calendar day, exactly the rows stored for that symbol and day, by
\* timestamp.
StoredRows(asset, day) ==
  LET S == {r \in RecordsOf(datalake.files) :
              r.Ticker = asset /\ r.Datetime \div MinutesPerDay = day}
      times == SortedSeq({r.Datetime : r \in S})
  IN  [k \in 1..Len(times) |-> CHOOSE r \in S : r.Datetime = times[k]]

C19_ReaderShowsStore ==
  LET none == <<>> \notin datalake.dirs \/ RecordsOf(datalake.files) = {}
  IN  \A asset \in Range(ASSETS), day \in Days :
        LET run == dash_main(datalake, cache, asset, day)
        IN  /\ none => /\ load_data(datalake).df = <<>>
                       /\ run.out \in {"WARNING no directory", "INFO no data"}
            /\ (~none /\ ~cache.valid) => run.rows = StoredRows(asset, day)

\* C20: wherever main is when KeyboardInterrupt arrives (a stage, the
\* normal sleep or the backoff sleep), it logs the stop and leaves the loop
\* by break; the interrupt never escapes main.
C20_InterruptStopsCleanly ==
  [][(pc \notin Terminal /\ pc' \in Terminal) =>
        /\ pc' = "stopped"
        /\ "INFO stopped by user" \in log']_vars

====
